---- MODULE Spec2Model ----
(***************************************************************************)
(* Ollama Model Manager: the Express server (src/server.js) and the two    *)
(* browser front ends (src/public/app.js, the standalone page in           *)
(* src/unnamed/part_000).                                                  *)
(*                                                                         *)
(* Specifications:                                                         *)
(*   SpecClient    one pull/update stream consumed by one of the three     *)
(*                 browser consumers, chunk by chunk;                      *)
(*   Spec          the server as it runs: every request enters the         *)
(*                 middleware stack at its first layer;                    *)
(*   SpecHandlers  every registered route handler applied to a request     *)
(*                 that matches its route, its errors passed on to the     *)
(*                 error middleware registered after it.                   *)
(*   SpecHandlersFair  SpecHandlers in which the server's own steps are    *)
(*                 eventually taken.                                       *)
(*   SpecListing   the handler of GET /api/models running beside the       *)
(*                 requests of Spec;                                       *)
(*   SpecShutdown  SpecHandlers with termination signals, the close        *)
(*                 callback and the forced-shutdown timer;                 *)
(*   SpecPage      the model selection of the standalone page;             *)
(*   SpecStreams   two update streams of the standalone page read          *)
(*                 concurrently.                                           *)
(***************************************************************************)
EXTENDS Integers, Sequences, FiniteSets, TLC

VARIABLES
    \* ---- browser consumer (SpecClient)
    consumer,      \* which consumer reads the stream
    payload,       \* the bytes of the response body
    pos,           \* number of bytes already handed out by reader.read()
    chunks,        \* the chunks read so far, in order
    cphase,        \* "idle" | "reading" | "done" | "failed"
    cs,            \* the consumer's local variables and the DOM it writes
    \* ---- server (Spec, SpecHandlers)
    env,           \* process.env: API_KEY, OLLAMA_ENDPOINTS
    ollamaEndpoint,
    req,           \* the request being served
    at,            \* the layer holding the request and how far it got
    err,           \* the error passed to next(), NoError when none
    res,           \* the response object
    up,            \* the upstream stream of a relay
    sub,           \* the upstream sub-requests of a bulk delete
    served,        \* number of requests received so far
    listing,       \* a GET /api/models handler running beside the request
    proc,          \* the server process: running, closing or exited
    \* ---- standalone page (SpecPage, SpecStreams)
    selectedModels,
    currentModels,
    dom,           \* the checkboxes and the Update Selected button
    streams,       \* the update/pull streams being read at the same time
    lastStatusIn   \* the lastStatus variable of every scope that holds one

clientVars == <<consumer, payload, pos, chunks, cphase, cs>>
serverVars == <<env, ollamaEndpoint, req, at, err, res, up, sub, served>>
pageVars == <<selectedModels, currentModels, dom>>
streamVars == <<streams, lastStatusIn>>
outsideServer == <<clientVars, pageVars, streamVars>>
outsideClient == <<serverVars, listing, proc, pageVars, streamVars>>
outsidePage == <<clientVars, serverVars, listing, proc, streamVars>>
outsideStreams == <<clientVars, serverVars, listing, proc, pageVars>>
vars == <<consumer, payload, pos, chunks, cphase, cs,
          env, ollamaEndpoint, req, at, err, res, up, sub, served,
          listing, proc, selectedModels, currentModels, dom,
          streams, lastStatusIn>>

(***************************************************************************)
(* Bounds                                                                  *)
(***************************************************************************)
MaxLines == 2      \* lines in a response body
MaxChunks == 3     \* chunks reader.read() delivers a body in
MaxModels == 2     \* models named by a bulk delete
MaxUpChunks == 2   \* chunks an upstream stream delivers
MaxServed == 2     \* requests served in one behaviour
MaxPending == 1    \* calls of one page function awaiting their fetch
MaxSignals == 2    \* termination signals delivered to the process

(***************************************************************************)
(* Bytes, lines and records.  A body is a sequence of one-character        *)
(* strings.  A JSON object is written <<"{", c, "}">>, c naming the        *)
(* object; like a JSON object, no proper prefix or suffix of it parses.    *)
(***************************************************************************)
NL == "\n"

RecordCodes == {"D", "Z", "O", "V", "W", "S", "E", "F"}

Rec(status, completed, total, error) ==
    [status |-> status, completed |-> completed, total |-> total, error |-> error]

\* The object a code stands for.  error = "" is an absent error field.
RecordOf(c) ==
    CASE c = "D" -> Rec("downloading", 1, 2, "")
      [] c = "Z" -> Rec("downloading", 0, 0, "")
      [] c = "O" -> Rec("downloading", 3, 2, "")
      [] c = "V" -> Rec("verifying", 0, 0, "")
      [] c = "W" -> Rec("writing manifest", 0, 0, "")
      [] c = "S" -> Rec("success", 0, 0, "")
      [] c = "E" -> Rec("error", 0, 0, "disk full")
      [] c = "F" -> Rec("error", 0, 0, "")

JsonLine(c) == <<"{", c, "}">>
JunkLine == <<"N", "O">>

RECURSIVE Concat(_)
Concat(ss) == IF ss = <<>> THEN <<>> ELSE Head(ss) \o Concat(Tail(ss))

RECURSIVE SeqsUpTo(_, _)
SeqsUpTo(S, n) ==
    IF n = 0 THEN {<<>>}
    ELSE LET shorter == SeqsUpTo(S, n - 1)
         IN shorter \cup {Append(s, x) : s \in shorter, x \in S}

\* Newline-delimited bodies: every line is followed by "\n".
WellFormedLines == {JsonLine(c) : c \in RecordCodes}
AllLines == WellFormedLines \cup {JunkLine}
BodyOf(lines) == Concat([i \in 1..Len(lines) |-> Append(lines[i], NL)])
\* The inputs of the spec's testable properties 2 and 5.
ExampleSkip == BodyOf(<<JsonLine("D"), JunkLine, JsonLine("S")>>)
ExampleRepeat == BodyOf(<<JsonLine("W"), JsonLine("W"), JsonLine("S")>>)
\* A phase that resumes after a download.
ExampleResume == BodyOf(<<JsonLine("V"), JsonLine("D"), JsonLine("V")>>)
\* A body whose last line the daemon did not terminate.
Unterminated == BodyOf(<<JsonLine("V")>>) \o JsonLine("S")
Bodies == {BodyOf(ls) : ls \in SeqsUpTo(AllLines, MaxLines) \ {<<>>}}
              \cup {ExampleSkip, ExampleRepeat, ExampleResume, Unterminated}
WellFormed(body) ==
    \E ls \in SeqsUpTo(WellFormedLines, MaxLines) : body = BodyOf(ls)

(***************************************************************************)
(* String.prototype.split('\n'), String.prototype.trim, JSON.parse         *)
(***************************************************************************)
RECURSIVE SplitFrom(_, _, _, _)
SplitFrom(s, i, cur, acc) ==
    IF i > Len(s) THEN Append(acc, cur)
    ELSE IF s[i] = NL THEN SplitFrom(s, i + 1, <<>>, Append(acc, cur))
    ELSE SplitFrom(s, i + 1, Append(cur, s[i]), acc)

Split(s) == SplitFrom(s, 1, <<>>, <<>>)

\* !line.trim()
IsBlank(line) == \A i \in 1..Len(line) : line[i] = " "

\* JSON.parse(line) returns (does not throw a SyntaxError)
Parses(line) ==
    /\ Len(line) = 3
    /\ line[1] = "{"
    /\ line[3] = "}"
    /\ line[2] \in RecordCodes

JSONparse(line) == RecordOf(line[2])

(***************************************************************************)
(* Labels shown in the page: text, and for a download the percentage in    *)
(* tenths of a percent.                                                    *)
(***************************************************************************)
NoPct == -1
NaNPct == -2
InfPct == -3

Label(text, pct, msg) == [text |-> text, pct |-> pct, msg |-> msg]
Text(text) == Label(text, NoPct, "")
ErrorLabel(msg) == Label("Error: ", NoPct, msg)
NoErr == "<none>"

\* Math.round(x / y * 100), in tenths, for x, y >= 0 and y > 0
RoundPercent(x, y) == ((200 * x + y) \div (2 * y)) * 10

\* ((x / y) * 100).toFixed(1), in tenths; 0/0 is NaN, x/0 is Infinity
ToFixed1Percent(x, y) ==
    IF y = 0 THEN (IF x = 0 THEN NaNPct ELSE InfPct)
    ELSE (2000 * x + y) \div (2 * y)

(***************************************************************************)
(* The server: requests, responses, errors                                 *)
(***************************************************************************)
DefaultEndpoint == "http://localhost:11434"
OtherEndpoint == "http://ollama.example:11434"
BackupEndpoint == "http://backup.example:11434"

Methods == {"GET", "POST", "DELETE"}
Paths == {"/health", "/api/endpoints", "/api/set-endpoint", "/api/models",
          "/api/pull", "/api/ps", "/api/update-model", "/api/version"}
ModelNames == {"a", "b"}
ModelLists == SeqsUpTo(ModelNames, MaxModels)
NotAString == "<number 42>"                   \* a JSON value that is no string
\* body.model / body.modelName; "" is also the absent field
NameInputs == {"llama2", "", " ", NotAString}
EndpointInputs == {DefaultEndpoint, OtherEndpoint, BackupEndpoint, "garbage"}
Keys == {"none", "secret", "wrong"}           \* the x-api-key header

Request(method, path, name, isArray, models, endpoint, key) ==
    [method |-> method, path |-> path, name |-> name, isArray |-> isArray,
     models |-> models, endpoint |-> endpoint, key |-> key]

NoRequest == Request("-", "-", "", FALSE, <<>>, "", "none")

\* The requests a client may send; a body field the route does not read is
\* left empty.
BodyFields(method, path) ==
    CASE path \in {"/api/pull", "/api/update-model"} ->
             {<<n, FALSE, <<>>, "">> : n \in NameInputs}
      [] path = "/api/models" /\ method = "DELETE" ->
             {<<"", TRUE, ms, "">> : ms \in ModelLists} \cup {<<"", FALSE, <<>>, "">>}
      [] path = "/api/set-endpoint" /\ method = "POST" ->
             {<<"", FALSE, <<>>, e>> : e \in EndpointInputs}
      [] OTHER -> {<<"", FALSE, <<>>, "">>}

RequestsTo(method, path) ==
    {Request(method, path, b[1], b[2], b[3], b[4], k) :
        b \in BodyFields(method, path), k \in Keys}

Requests == UNION {RequestsTo(m, p) : m \in Methods, p \in Paths}

\* http-errors createError(status, message | props): the fields the error
\* handlers read.  message "" stands for the status text.
NoError ==
    [status |-> 0, message |-> "", errors |-> FALSE, failed |-> <<>>, deleted |-> 0]

StatusText(status) ==
    CASE status = 207 -> "Multi-Status"
      [] status = 400 -> "Bad Request"
      [] status = 401 -> "Unauthorized"
      [] status = 404 -> "Not Found"
      [] OTHER -> "Internal Server Error"

createError(status, message, errors) ==
    [status |-> status,
     message |-> IF message = "" THEN StatusText(status) ELSE message,
     errors |-> errors, failed |-> <<>>, deleted |-> 0]

\* createError(status, {message, failed, deleted, ...}): the properties are
\* copied onto the error
createErrorWith(status, message, failed, deleted) ==
    [createError(status, message, FALSE) EXCEPT !.failed = failed,
                                                 !.deleted = deleted]

\* A JSON body: the keys present and their values.
Json(keys, success, message, failed, n) ==
    [keys |-> keys, success |-> success, message |-> message,
     failed |-> failed, n |-> n]

NoBody == Json({}, FALSE, "", <<>>, 0)

FreshResponse ==
    [statusCode |-> 200, headersSent |-> FALSE, ended |-> FALSE,
     destroyed |-> FALSE, contentType |-> "", transferEncoding |-> "",
     cacheControl |-> "", connection |-> "",
     kind |-> "none", json |-> NoBody, written |-> <<>>, by |-> "none",
     ends |-> 0]

\* res.status(status).json(body) by the code named `by`
SendJson(r, status, body, by) ==
    [r EXCEPT !.statusCode = status, !.headersSent = TRUE, !.ended = TRUE,
              !.contentType = IF r.contentType = "" THEN "application/json"
                              ELSE r.contentType,
              !.kind = "json", !.json = body, !.by = by,
              !.ends = r.ends + 1]

(***************************************************************************)
(* The middleware stack, in the order server.js registers it.  A layer is  *)
(* a middleware ("use", matched by path prefix), a route (matched by       *)
(* method and path) or an error-handling middleware ("error", four         *)
(* parameters).                                                            *)
(***************************************************************************)
Layer(name, kind, method, path) ==
    [name |-> name, kind |-> kind, method |-> method, path |-> path]

Stack ==
    << Layer("apiKeyAuth", "use", "*", "/api"),
       Layer("health", "route", "GET", "/health"),
       Layer("endpoints", "route", "GET", "/api/endpoints"),
       Layer("setEndpoint", "route", "POST", "/api/set-endpoint"),
       Layer("errorHandler", "error", "*", "/"),
       Layer("notFound", "use", "*", "/"),
       Layer("getModels", "route", "GET", "/api/models"),
       Layer("deleteModels", "route", "DELETE", "/api/models"),
       Layer("pull", "route", "POST", "/api/pull"),
       Layer("ps", "route", "GET", "/api/ps"),
       Layer("notFound2", "use", "*", "/"),
       Layer("globalErrorHandler", "error", "*", "/"),
       Layer("updateModel", "route", "POST", "/api/update-model"),
       Layer("health2", "route", "GET", "/health"),
       Layer("deleteModels2", "route", "DELETE", "/api/models"),
       Layer("pull2", "route", "POST", "/api/pull") >>

LayerOf(name) == CHOOSE i \in 1..Len(Stack) : Stack[i].name = name

IsApiPath(path) == path \notin {"/health"}

Matches(layer, r) ==
    CASE layer.kind = "route" -> layer.method = r.method /\ layer.path = r.path
      [] layer.path = "/api" -> IsApiPath(r.path)
      [] OTHER -> TRUE

\* apiKeyAuth that refuses only a request without a key
apiKeyAuthRefusesNoKey(e, r) ==
    e.API_KEY # "" /\ r.key = "none"

\* apiKeyAuth: the request is refused
apiKeyAuthRefuses(e, r) ==
    e.API_KEY # "" /\ (r.key = "none" \/ r.key # e.API_KEY)

\* The error a middleware passes to next(), NoError when it passes none.
MiddlewareError(layer, e, r) ==
    CASE layer.name = "apiKeyAuth" ->
             IF apiKeyAuthRefuses(e, r)
             THEN createError(401, "Invalid API key", FALSE)
             ELSE NoError
      [] layer.name \in {"notFound", "notFound2"} ->
             createError(404, "Not Found - ", FALSE)
      [] OTHER -> NoError

\* Express's router from layer i on: the layer that answers and the error
\* it is given.  With an error pending only error middleware is entered;
\* without one, error middleware is skipped.  Past the last layer the
\* request falls to Express's final handler.
RECURSIVE Walk(_, _, _, _)
Walk(i, e, r, error) ==
    IF i > Len(Stack) THEN [name |-> "finalhandler", error |-> error]
    ELSE LET layer == Stack[i]
         IN IF error # NoError
            THEN IF layer.kind = "error"
                 THEN [name |-> layer.name, error |-> error]
                 ELSE Walk(i + 1, e, r, error)
            ELSE IF layer.kind = "error" \/ ~Matches(layer, r)
                 THEN Walk(i + 1, e, r, error)
            ELSE IF layer.kind = "route"
                 THEN [name |-> layer.name, error |-> NoError]
                 ELSE Walk(i + 1, e, r, MiddlewareError(layer, e, r))

\* The handler of layer `name` calls next(error) (asyncHandler on a throw).
Throw(name, error) ==
    LET to == Walk(LayerOf(name) + 1, env, req, error)
    IN /\ at' = [h |-> to.name, step |-> "run"]
       /\ err' = to.error

Idle == [h |-> "none", step |-> "idle"]
Sent(name) == [h |-> name, step |-> "sent"]

ServerIdle ==
    /\ env = [API_KEY |-> "", OLLAMA_ENDPOINTS |-> <<DefaultEndpoint>>]
    /\ ollamaEndpoint = DefaultEndpoint
    /\ req = NoRequest
    /\ at = Idle
    /\ err = NoError
    /\ res = FreshResponse
    /\ up = [state |-> "none", data |-> <<>>]
    /\ sub = <<>>
    /\ served = 0

NotListing == [step |-> "idle", endpoints |-> <<>>, models |-> 0]
\* callbacks: the err each callback given to server.close() will be called
\* with; by: what called process.exit
Running ==
    [state |-> "running", code |-> -1, timer |-> FALSE, callbacks |-> <<>>,
     by |-> "none"]

SideIdle ==
    /\ listing = NotListing
    /\ proc = Running

PageIdle ==
    /\ selectedModels = {}
    /\ currentModels = {}
    /\ dom = [rendered |-> {}, checked |-> {}, updateSelectedBtnDisabled |-> TRUE,
              refreshing |-> 0, updating |-> 0]

StreamsIdle ==
    /\ streams = <<>>
    /\ lastStatusIn = <<>>

ClientIdle ==
    /\ consumer = "none"
    /\ payload = <<>>
    /\ pos = 0
    /\ chunks = <<>>
    /\ cphase = "idle"
    /\ cs = [parsed |-> <<>>]

Environments ==
    {[API_KEY |-> k, OLLAMA_ENDPOINTS |-> l] :
        k \in {"", "secret"},
        l \in {<<DefaultEndpoint, OtherEndpoint>>, <<OtherEndpoint>>}}

InitServer ==
    /\ env \in Environments
    /\ ollamaEndpoint = DefaultEndpoint
    /\ req = NoRequest
    /\ at = Idle
    /\ err = NoError
    /\ res = FreshResponse
    /\ up = [state |-> "none", data |-> <<>>]
    /\ sub = <<>>
    /\ served = 0
    /\ SideIdle
    /\ ClientIdle
    /\ PageIdle
    /\ StreamsIdle

\* The server takes the next request once the last one is answered.
CanAccept ==
    /\ at.step \in {"idle", "sent"}
    /\ served < MaxServed
    /\ proc.state = "running"

Accept(r) ==
    /\ req' = r
    /\ res' = FreshResponse
    /\ up' = [state |-> "none", data |-> <<>>]
    /\ sub' = <<>>
    /\ served' = served + 1

\* A request arrives and runs down the stack to the layer that answers it.
Receive ==
    /\ CanAccept
    /\ \E r \in Requests :
         /\ Accept(r)
         /\ LET to == Walk(1, env, r, NoError)
            IN /\ at' = [h |-> to.name, step |-> "run"]
               /\ err' = to.error
    /\ UNCHANGED <<env, ollamaEndpoint>>
    /\ UNCHANGED <<listing, proc>>
    /\ UNCHANGED outsideServer

\* app.get('/health')
Health ==
    /\ at.step = "run"
    /\ at.h \in {"health", "health2"}
    /\ res' = SendJson(res, 200, Json({"status"}, FALSE, "ok", <<>>, 0), at.h)
    /\ at' = Sent(at.h)
    /\ UNCHANGED <<env, ollamaEndpoint, req, err, up, sub, served>>
    /\ UNCHANGED <<listing, proc>>
    /\ UNCHANGED outsideServer

\* getEndpoints(): the configured endpoints that are marked active
ActiveEndpoints ==
    SelectSeq(env.OLLAMA_ENDPOINTS, LAMBDA u : u = ollamaEndpoint)

\* app.get('/api/endpoints')
GetEndpoints ==
    /\ at = [h |-> "endpoints", step |-> "run"]
    /\ res' = SendJson(res, 200,
                       Json({"url", "active"}, FALSE, "", ActiveEndpoints,
                            Len(env.OLLAMA_ENDPOINTS)), "endpoints")
    /\ at' = Sent("endpoints")
    /\ UNCHANGED <<env, ollamaEndpoint, req, err, up, sub, served>>
    /\ UNCHANGED <<listing, proc>>
    /\ UNCHANGED outsideServer

\* express-validator isURL(): the host needs a top-level domain
isURL(endpoint) == endpoint \in {OtherEndpoint, BackupEndpoint}

\* app.post('/api/set-endpoint') up to the probe request
SetEndpointStart ==
    /\ at = [h |-> "setEndpoint", step |-> "run"]
    /\ IF ~isURL(req.endpoint)
       THEN Throw("setEndpoint", createError(400, "", TRUE))
       ELSE /\ at' = [h |-> "setEndpoint", step |-> "await"]
            /\ err' = err
    /\ UNCHANGED <<env, ollamaEndpoint, req, res, up, sub, served>>
    /\ UNCHANGED <<listing, proc>>
    /\ UNCHANGED outsideServer

\* a handler that assigns the endpoint before the probe has settled
SetEndpointProbeAssignsFirst ==
    /\ at = [h |-> "setEndpoint", step |-> "await"]
    /\ ollamaEndpoint' = req.endpoint
    /\ \E ok \in BOOLEAN :
         IF ok
         THEN /\ res' = SendJson(res, 200,
                                 Json({"success", "message", "endpoint"}, TRUE,
                                      "Endpoint set successfully", <<>>, 0),
                                 "setEndpoint")
              /\ at' = Sent("setEndpoint")
              /\ err' = err
         ELSE /\ Throw("setEndpoint",
                       createError(400, "Failed to connect to endpoint: ", FALSE))
              /\ res' = res
    /\ UNCHANGED <<env, req, up, sub, served>>
    /\ UNCHANGED <<listing, proc>>
    /\ UNCHANGED outsideServer

\* the probe GET <endpoint>/api/tags settles
SetEndpointProbe ==
    /\ at = [h |-> "setEndpoint", step |-> "await"]
    /\ \E ok \in BOOLEAN :
         IF ok
         THEN /\ ollamaEndpoint' = req.endpoint
              /\ res' = SendJson(res, 200,
                                 Json({"success", "message", "endpoint"}, TRUE,
                                      "Endpoint set successfully", <<>>, 0),
                                 "setEndpoint")
              /\ at' = Sent("setEndpoint")
              /\ err' = err
         ELSE /\ Throw("setEndpoint",
                       createError(400, "Failed to connect to endpoint: ", FALSE))
              /\ UNCHANGED <<ollamaEndpoint, res>>
    /\ UNCHANGED <<env, req, up, sub, served>>
    /\ UNCHANGED <<listing, proc>>
    /\ UNCHANGED outsideServer

\* the centralized error handler registered after /api/set-endpoint
ErrorHandler ==
    /\ at = [h |-> "errorHandler", step |-> "run"]
    /\ res' = SendJson(res, err.status,
                       Json({"success", "error"}, FALSE, err.message, <<>>, 0),
                       "errorHandler")
    /\ at' = Sent("errorHandler")
    /\ UNCHANGED <<env, ollamaEndpoint, req, err, up, sub, served>>
    /\ UNCHANGED <<listing, proc>>
    /\ UNCHANGED outsideServer

\* the global error handler registered after the second 404 handler
GlobalErrorHandler ==
    /\ at = [h |-> "globalErrorHandler", step |-> "run"]
    /\ res' = SendJson(res, err.status,
                       Json({"success", "message"}
                               \cup (IF err.errors THEN {"errors"} ELSE {}),
                            FALSE, err.message, <<>>, 0),
                       "globalErrorHandler")
    /\ at' = Sent("globalErrorHandler")
    /\ UNCHANGED <<env, ollamaEndpoint, req, err, up, sub, served>>
    /\ UNCHANGED <<listing, proc>>
    /\ UNCHANGED outsideServer

(***************************************************************************)
(* Route handlers registered after the first 404 handler                   *)
(***************************************************************************)
HandlerNames ==
    {"health", "endpoints", "setEndpoint", "deleteModels", "pull",
     "updateModel", "health2", "deleteModels2", "pull2"}

\* A request is handed to a route handler whose method and path it matches,
\* having passed apiKeyAuth.
Invoke ==
    /\ CanAccept
    /\ \E r \in Requests, i \in 1..Len(Stack) :
         /\ Stack[i].kind = "route"
         /\ Stack[i].name \in HandlerNames
         /\ Matches(Stack[i], r)
         /\ ~apiKeyAuthRefuses(env, r)
         /\ Accept(r)
         /\ at' = [h |-> Stack[i].name, step |-> "run"]
         /\ err' = NoError
    /\ UNCHANGED <<env, ollamaEndpoint>>
    /\ UNCHANGED <<listing, proc>>
    /\ UNCHANGED outsideServer

\* ---- DELETE /api/models (both registrations)
AxiosMessages == {"Request failed with status code 404",
                  "timeout of 30000ms exceeded"}

SubRequest(model, state, message) ==
    [model |-> model, state |-> state, message |-> message]

\* validation, then one axios.delete per model
DeleteStart ==
    /\ at.step = "run"
    /\ at.h \in {"deleteModels", "deleteModels2"}
    /\ IF ~req.isArray
       THEN /\ Throw(at.h, createError(400, "", TRUE))
            /\ sub' = sub
       ELSE IF Len(req.models) = 0
       THEN /\ Throw(at.h, createError(400, "No models specified for deletion", FALSE))
            /\ sub' = sub
       ELSE /\ sub' = [i \in 1..Len(req.models) |->
                          SubRequest(req.models[i], "pending", "")]
            /\ at' = [h |-> at.h, step |-> "await"]
            /\ err' = err
    /\ UNCHANGED <<env, ollamaEndpoint, req, res, up, served>>
    /\ UNCHANGED <<listing, proc>>
    /\ UNCHANGED outsideServer

\* one sub-request settles, in any order
SubSettle ==
    /\ at.step = "await"
    /\ at.h \in {"deleteModels", "deleteModels2"}
    /\ \E i \in 1..Len(sub) :
         /\ sub[i].state = "pending"
         /\ \/ sub' = [sub EXCEPT ![i].state = "fulfilled"]
            \/ \E m \in AxiosMessages :
                 sub' = [sub EXCEPT ![i].state = "rejected", ![i].message = m]
    /\ UNCHANGED <<env, ollamaEndpoint, req, at, err, res, up, served>>
    /\ UNCHANGED <<listing, proc>>
    /\ UNCHANGED outsideServer

\* results.map(...).filter((item) => item.error)
FailedItem(s) ==
    [model |-> s.model, error |-> IF s.state = "rejected" THEN s.message ELSE ""]

FailedOf(results) ==
    SelectSeq([i \in 1..Len(results) |-> FailedItem(results[i])],
              LAMBDA item : item.error # "")

\* the answer of the first registration once Promise.allSettled resolves
DeleteFinishFirst ==
    LET failed == FailedOf(sub)
    IN IF Len(failed) > 0
       THEN /\ Throw("deleteModels",
                     createErrorWith(207, "Some models could not be deleted",
                                     failed, Len(req.models) - Len(failed)))
            /\ res' = res
       ELSE /\ res' = SendJson(res, 200,
                               Json({"success", "message", "count"}, TRUE,
                                    "Models deleted successfully", <<>>,
                                    Len(req.models)), "deleteModels")
            /\ at' = Sent("deleteModels")
            /\ err' = err

\* the answer of the second registration
DeleteFinishSecond ==
    LET failed == FailedOf(sub)
    IN IF Len(failed) > 0 /\ Len(failed) = Len(req.models)
       THEN /\ Throw("deleteModels2",
                     createErrorWith(500, "Failed to delete all models", failed, 0))
            /\ res' = res
       ELSE IF Len(failed) > 0
       THEN /\ res' = SendJson(res, 207,
                               Json({"success", "message", "failed", "deleted"},
                                    TRUE, "Some models could not be deleted",
                                    failed, Len(req.models) - Len(failed)),
                               "deleteModels2")
            /\ at' = Sent("deleteModels2")
            /\ err' = err
       ELSE /\ res' = SendJson(res, 200,
                               Json({"success", "message", "count"}, TRUE,
                                    "Models deleted successfully", <<>>,
                                    Len(req.models)), "deleteModels2")
            /\ at' = Sent("deleteModels2")
            /\ err' = err

DeleteFinish ==
    /\ at.step = "await"
    /\ at.h \in {"deleteModels", "deleteModels2"}
    /\ \A i \in 1..Len(sub) : sub[i].state # "pending"
    /\ IF at.h = "deleteModels" THEN DeleteFinishFirst ELSE DeleteFinishSecond
    /\ UNCHANGED <<env, ollamaEndpoint, req, up, sub, served>>
    /\ UNCHANGED <<listing, proc>>
    /\ UNCHANGED outsideServer

\* ---- POST /api/pull (both registrations), POST /api/update-model
RelayHandlers == {"pull", "updateModel", "pull2"}
UpChunks == {"x", "y"}

\* body(...).isString().trim().notEmpty()
isString(value) == value # NotAString
trim(value) == IF value = " " THEN "" ELSE value
ValidName(name) == isString(name) /\ trim(name) # ""

\* the headers the first /api/pull registration sets before the request
StreamingHeaders(r) ==
    [r EXCEPT !.contentType = "application/octet-stream",
              !.transferEncoding = "chunked",
              !.cacheControl = "no-cache",
              !.connection = "keep-alive"]

\* the first registration of app.post('/api/pull') up to "await axios(...)"
PullStart ==
    /\ at = [h |-> "pull", step |-> "run"]
    /\ IF ~ValidName(req.name)
       THEN /\ Throw("pull", createError(400, "", TRUE))
            /\ UNCHANGED <<res, up>>
       ELSE /\ res' = StreamingHeaders(res)
            /\ up' = [state |-> "connecting", data |-> <<>>]
            /\ at' = [h |-> "pull", step |-> "await"]
            /\ err' = err
    /\ UNCHANGED <<env, ollamaEndpoint, req, sub, served>>
    /\ UNCHANGED <<listing, proc>>
    /\ UNCHANGED outsideServer

\* app.post('/api/update-model') and the second app.post('/api/pull'):
\* validation, then handleModelOperation up to "await axios(...)"
ModelOperationStart ==
    /\ at.step = "run"
    /\ at.h \in {"updateModel", "pull2"}
    /\ IF ~ValidName(req.name)
       THEN /\ Throw(at.h, createError(400, "", TRUE))
            /\ up' = up
       ELSE /\ up' = [state |-> "connecting", data |-> <<>>]
            /\ at' = [h |-> at.h, step |-> "await"]
            /\ err' = err
    /\ UNCHANGED <<env, ollamaEndpoint, req, res, sub, served>>
    /\ UNCHANGED <<listing, proc>>
    /\ UNCHANGED outsideServer

\* the message of the error the catch block throws
RelayFailure(h) ==
    IF h = "pull" THEN "Failed to pull model: "
    ELSE IF h = "updateModel" THEN "Failed to update: "
    ELSE "Failed to pull: "

\* the upstream request settles: a stream to pipe, or a rejection (no
\* connection, or a status outside 2xx)
UpstreamResponse ==
    /\ at.step = "await"
    /\ at.h \in RelayHandlers
    /\ \E ok \in BOOLEAN :
         IF ok
         THEN /\ up' = [up EXCEPT !.state = "open"]
              /\ at' = [h |-> at.h, step |-> "relay"]
              /\ err' = err
         ELSE /\ up' = [up EXCEPT !.state = "refused"]
              /\ Throw(at.h, createError(500, RelayFailure(at.h), FALSE))
    /\ UNCHANGED <<env, ollamaEndpoint, req, res, sub, served>>
    /\ UNCHANGED <<listing, proc>>
    /\ UNCHANGED outsideServer

\* pipe writes a chunk to res unchanged and always "x"
PipeWriteConstant(r, c, h) ==
    [r EXCEPT !.headersSent = TRUE, !.kind = "stream",
              !.written = Append(r.written, "x"), !.by = h,
              !.transferEncoding = "chunked",
              !.connection = "keep-alive"]

\* pipe's 'data' listener: dest.write(chunk).  The first write sends the
\* headers; with no Content-Length set, Node frames the body as chunked and
\* keeps the connection alive.
PipeWrite(r, c, h) ==
    [r EXCEPT !.headersSent = TRUE, !.kind = "stream",
              !.written = Append(r.written, c), !.by = h,
              !.transferEncoding = "chunked",
              !.connection = "keep-alive"]

\* response.data.pipe(res): a chunk arrives from upstream; it is written to
\* res while res is piped, and stays in the stream's buffer once the
\* downstream client is gone
UpstreamData ==
    /\ at.step \in {"relay", "orphaned"}
    /\ up.state = "open"
    /\ Len(up.data) < MaxUpChunks
    /\ \E c \in UpChunks :
         /\ up' = [up EXCEPT !.data = Append(up.data, c)]
         /\ res' = IF at.step = "relay" THEN PipeWrite(res, c, at.h) ELSE res
    /\ UNCHANGED <<env, ollamaEndpoint, req, at, err, sub, served>>
    /\ UNCHANGED <<listing, proc>>
    /\ UNCHANGED outsideServer

\* the downstream client disconnects during the relay: res is closed, pipe
\* unpipes it and pauses the upstream stream.  No listener of the handlers
\* watches the request or the response for 'close', and nothing aborts the
\* upstream request.
ClientDisconnect ==
    /\ at.step = "relay"
    /\ up.state = "open"
    /\ res' = [res EXCEPT !.destroyed = TRUE]
    /\ at' = [h |-> at.h, step |-> "orphaned"]
    /\ UNCHANGED <<env, ollamaEndpoint, req, err, up, sub, served>>
    /\ UNCHANGED <<listing, proc>>
    /\ UNCHANGED outsideServer

\* response.data.on('error', ...): pipe leaves res open on a source error
UpstreamError ==
    /\ at.step \in {"relay", "orphaned"}
    /\ up.state = "open"
    /\ up' = [up EXCEPT !.state = "errored"]
    /\ IF ~res.headersSent
       THEN /\ res' = SendJson(res, 500,
                               Json({"success", "error", "details"}, FALSE,
                                    "Error during ", <<>>, 0), at.h)
            /\ at' = Sent(at.h)
       ELSE /\ res' = res
            /\ at' = IF at.step = "orphaned" THEN Sent(at.h)
                     ELSE [h |-> at.h, step |-> "stalled"]
    /\ UNCHANGED <<env, ollamaEndpoint, req, err, sub, served>>
    /\ UNCHANGED <<listing, proc>>
    /\ UNCHANGED outsideServer

\* an 'end' listener of pipe that leaves the headers unsent
PipeEndHeadersUnsent(r) ==
    [r EXCEPT !.ended = TRUE,
              !.kind = IF r.kind = "none" THEN "empty" ELSE r.kind,
              !.ends = r.ends + 1]

\* res.end() by pipe's own 'end' listener, registered first
PipeEnd(r) ==
    [r EXCEPT !.headersSent = TRUE, !.ended = TRUE,
              !.kind = IF r.kind = "none" THEN "empty" ELSE r.kind,
              !.ends = r.ends + 1]

\* an 'end' listener that appends the synthetic record without a test
EndListenerUnguarded(r, h) ==
    [r EXCEPT !.headersSent = TRUE, !.ended = TRUE, !.kind = "stream",
              !.written = Append(r.written, "success"), !.by = h,
              !.ends = r.ends + 1]

\* response.data.on('end', ...): the synthetic record when headers are unsent
EndListener(r, h) ==
    IF ~r.headersSent
    THEN [r EXCEPT !.headersSent = TRUE, !.ended = TRUE, !.kind = "stream",
                   !.written = Append(r.written, "success"), !.by = h,
                   !.ends = r.ends + 1]
    ELSE r

UpstreamEnd ==
    /\ at.step = "relay"
    /\ up.state = "open"
    /\ up' = [up EXCEPT !.state = "ended"]
    /\ res' = EndListener(PipeEnd(res), at.h)
    /\ at' = Sent(at.h)
    /\ UNCHANGED <<env, ollamaEndpoint, req, err, sub, served>>
    /\ UNCHANGED <<listing, proc>>
    /\ UNCHANGED outsideServer

\* Express's final handler: an error no error middleware took
FinalHandler ==
    /\ at = [h |-> "finalhandler", step |-> "run"]
    /\ IF res.headersSent
       THEN res' = [res EXCEPT !.destroyed = TRUE]
       ELSE res' = [res EXCEPT
                       !.statusCode = IF err = NoError THEN 404
                                      ELSE IF err.status >= 400 /\ err.status < 600
                                      THEN err.status ELSE 500,
                       !.headersSent = TRUE, !.ended = TRUE,
                       !.contentType = "text/html", !.kind = "html",
                       !.by = "finalhandler", !.ends = res.ends + 1]
    /\ at' = Sent("finalhandler")
    /\ UNCHANGED <<env, ollamaEndpoint, req, err, up, sub, served>>
    /\ UNCHANGED <<listing, proc>>
    /\ UNCHANGED outsideServer

Next ==
    \/ Receive
    \/ Health
    \/ GetEndpoints
    \/ SetEndpointStart
    \/ SetEndpointProbe
    \/ ErrorHandler
    \/ GlobalErrorHandler

Spec == InitServer /\ [][Next]_vars

NextHandlers ==
    \/ Invoke
    \/ Health
    \/ GetEndpoints
    \/ SetEndpointStart
    \/ SetEndpointProbe
    \/ ErrorHandler
    \/ GlobalErrorHandler
    \/ DeleteStart
    \/ SubSettle
    \/ DeleteFinish
    \/ PullStart
    \/ ModelOperationStart
    \/ UpstreamResponse
    \/ UpstreamData
    \/ ClientDisconnect
    \/ UpstreamError
    \/ UpstreamEnd
    \/ FinalHandler

SpecHandlers == InitServer /\ [][NextHandlers]_vars

\* The steps the server takes by itself once it holds a request are taken
\* eventually; the arrival of requests, the upstream daemon and the
\* downstream client are under no such obligation.
ServerSteps ==
    \/ Health
    \/ GetEndpoints
    \/ SetEndpointStart
    \/ ErrorHandler
    \/ GlobalErrorHandler
    \/ DeleteStart
    \/ DeleteFinish
    \/ PullStart
    \/ ModelOperationStart
    \/ FinalHandler

SpecHandlersFair == SpecHandlers /\ WF_vars(ServerSteps)

(***************************************************************************)
(* The handler of GET /api/models, applied to a request while the server   *)
(* serves other requests: between its awaits the event loop runs their     *)
(* handlers.  listing.endpoints are the endpoints its upstream requests    *)
(* were sent to, in order.                                                 *)
(***************************************************************************)
\* app.get('/api/models') up to "await axios.get(`${ollamaEndpoint}/api/tags`)"
ModelsStart ==
    /\ listing.step = "idle"
    /\ proc.state = "running"
    /\ listing' = [listing EXCEPT !.step = "tags",
                                  !.endpoints = <<ollamaEndpoint>>]
    /\ UNCHANGED <<serverVars, proc>>
    /\ UNCHANGED outsideServer

\* the tag list arrives: one axios.post(`${ollamaEndpoint}/api/show`) per
\* model, all issued in the same turn; or the request fails and the catch
\* block throws createError(500)
ModelsTags ==
    /\ listing.step = "tags"
    /\ \/ \E n \in 0..MaxModels :
            listing' = [listing EXCEPT
                           !.step = "details",
                           !.models = n,
                           !.endpoints = listing.endpoints
                                            \o [i \in 1..n |-> ollamaEndpoint]]
       \/ listing' = [listing EXCEPT !.step = "failed"]
    /\ UNCHANGED <<serverVars, proc>>
    /\ UNCHANGED outsideServer

\* every detail call has settled (a failed one keeps the basic model):
\* res.json(sortedModels)
ModelsAnswer ==
    /\ listing.step = "details"
    /\ listing' = [listing EXCEPT !.step = "done"]
    /\ UNCHANGED <<serverVars, proc>>
    /\ UNCHANGED outsideServer

NextListing ==
    \/ Receive
    \/ Health
    \/ GetEndpoints
    \/ SetEndpointStart
    \/ SetEndpointProbe
    \/ ErrorHandler
    \/ GlobalErrorHandler
    \/ ModelsStart
    \/ ModelsTags
    \/ ModelsAnswer

SpecListing == InitServer /\ [][NextListing]_vars

(***************************************************************************)
(* Shutdown.  shutdown(signal) calls server.close(callback) and arms a     *)
(* timer; the server emits 'close' once it has stopped listening and no    *)
(* connection is left.                                                     *)
(***************************************************************************)
Exited == [h |-> "none", step |-> "exited"]

\* a connection is left while its request is unanswered or its response is
\* not ended; a destroyed one is gone
DrainedAlways == TRUE
Drained == at.step \in {"idle", "sent", "orphaned"}

\* the close callback: process.exit(1) if (err), process.exit(0) otherwise
closeCallbackCode(e) == IF e THEN 1 ELSE 0

\* process.on('SIGTERM' / 'SIGINT'): shutdown(signal).  server.close()
\* passes ERR_SERVER_NOT_RUNNING to the callback of a server already closed.
Signal ==
    /\ proc.state \in {"running", "closing"}
    /\ Len(proc.callbacks) < MaxSignals
    /\ proc' = [proc EXCEPT !.state = "closing",
                            !.timer = TRUE,
                            !.callbacks = Append(proc.callbacks,
                                                 proc.state = "closing")]
    /\ UNCHANGED serverVars
    /\ UNCHANGED listing
    /\ UNCHANGED outsideServer

\* 'close': the listeners run in the order they were added and the first
\* one ends the process
CloseCallback ==
    /\ proc.state = "closing"
    /\ Drained
    /\ proc' = [proc EXCEPT !.state = "exited",
                            !.code = closeCallbackCode(Head(proc.callbacks)),
                            !.by = "close"]
    /\ at' = Exited
    /\ UNCHANGED <<env, ollamaEndpoint, req, err, res, up, sub, served>>
    /\ UNCHANGED listing
    /\ UNCHANGED outsideServer

\* setTimeout(() => process.exit(1), 10000)
ForceTimer ==
    /\ proc.state = "closing"
    /\ proc.timer
    /\ proc' = [proc EXCEPT !.state = "exited", !.code = 1, !.by = "timer"]
    /\ at' = Exited
    /\ UNCHANGED <<env, ollamaEndpoint, req, err, res, up, sub, served>>
    /\ UNCHANGED listing
    /\ UNCHANGED outsideServer

NextShutdown ==
    \/ Invoke
    \/ Health
    \/ GetEndpoints
    \/ SetEndpointStart
    \/ SetEndpointProbe
    \/ ErrorHandler
    \/ GlobalErrorHandler
    \/ DeleteStart
    \/ SubSettle
    \/ DeleteFinish
    \/ PullStart
    \/ ModelOperationStart
    \/ UpstreamResponse
    \/ UpstreamData
    \/ ClientDisconnect
    \/ UpstreamError
    \/ UpstreamEnd
    \/ FinalHandler
    \/ Signal
    \/ CloseCallback
    \/ ForceTimer

\* An armed timer fires and a pending 'close' is emitted; requests, the
\* upstream daemon, the downstream client and signals are under no obligation.
SpecShutdown ==
    /\ InitServer
    /\ [][NextShutdown]_vars
    /\ WF_vars(ForceTimer)
    /\ WF_vars(CloseCallback)

(***************************************************************************)
(* The consumers' local variables and the DOM they write.                  *)
(*   parsed      records JSON.parse returned and the loop body handled     *)
(*   events      successive values written to the status text by records   *)
(*   statusText  the status text now on screen                             *)
(*   progress    the progress text / bar: <<completed, total>> or width    *)
(*   lastStatus  the de-duplication variable                               *)
(*   pullStatus  AppState.pullModel's pullStatus                           *)
(*   toast       the last toast shown                                      *)
(*   thrown      the message of the error that left the read loop          *)
(*   logged      number of exceptions the line-level catch only logged     *)
(***************************************************************************)
Consumers == {"app", "update", "pull"}

InitCs ==
    [parsed |-> <<>>, events |-> <<>>, statusText |-> Text(""),
     progress |-> <<>>, lastStatus |-> Text(""), pullStatus |-> "downloading",
     toast |-> Text(""), thrown |-> NoErr, logged |-> 0]

Show(c, label) ==
    [c EXCEPT !.statusText = label, !.events = Append(c.events, label)]

\* the message of the SyntaxError JSON.parse throws
SyntaxError == "Unexpected token"

Logged(c) == [c EXCEPT !.logged = c.logged + 1]

\* src/public/app.js pullModel, the try block of "for (const line of lines)":
\* the variables after it and the message of the exception it threw
AppPullTry(c, line) ==
    IF ~Parses(line) THEN [c |-> c, exc |-> SyntaxError]
    ELSE LET data == JSONparse(line)
             c1 == [c EXCEPT !.parsed = Append(c.parsed, data)]
         IN [exc |-> NoErr,
             c |-> CASE data.status = "downloading" ->
                        LET percent == IF data.total > 0
                                       THEN RoundPercent(data.completed, data.total)
                                       ELSE 0
                        IN [Show(c1, Label("Downloading: ", percent, ""))
                               EXCEPT !.progress = <<percent>>]
                   [] data.status = "verifying" ->
                        [Show(c1, Text("Verifying checksum..."))
                               EXCEPT !.pullStatus = "verifying"]
                   [] data.status = "success" ->
                        [Show(c1, Text("Pull completed successfully"))
                               EXCEPT !.pullStatus = "success"]
                   [] OTHER -> c1]

\* its catch clause only logs
AppPullRethrows(message) == FALSE

AppPullLine(c, line) ==
    LET r == AppPullTry(c, line)
    IN IF r.exc = NoErr THEN r.c
       ELSE IF AppPullRethrows(r.exc) THEN [r.c EXCEPT !.thrown = r.exc]
       ELSE Logged(r.c)

\* standalone page, handleUpdateStatus: does it throw, with which message,
\* and the label it returns otherwise
handleUpdateStatusThrows(update) == update.status = "error"

handleUpdateStatusMessage(update) ==
    IF update.error # "" THEN update.error ELSE "Update failed"

handleUpdateStatus(update) ==
    CASE update.status = "downloading" ->
             Label("Downloading: ", ToFixed1Percent(update.completed, update.total), "")
      [] update.status = "verifying digest" -> Text("Verifying download...")
      [] update.status = "writing manifest" -> Text("Finalizing update...")
      [] OTHER -> Text(update.status)

\* a test that takes every status for a new one
StatusChangedAlways(newStatus, lastStatus) == TRUE

\* the de-duplication test of both stream loops: newStatus !== lastStatus
StatusChanged(newStatus, lastStatus) == newStatus # lastStatus

\* standalone page processUpdateStream, the try block of the for loop
UpdateTry(c, line) ==
    IF ~Parses(line) THEN [c |-> c, exc |-> SyntaxError]
    ELSE LET update == JSONparse(line)
             c1 == [c EXCEPT !.parsed = Append(c.parsed, update)]
         IN IF handleUpdateStatusThrows(update)
            THEN [c |-> c1, exc |-> handleUpdateStatusMessage(update)]
            ELSE LET newStatus == handleUpdateStatus(update)
                 IN [exc |-> NoErr,
                     c |-> IF StatusChanged(newStatus, c1.lastStatus)
                           THEN [Show(c1, newStatus) EXCEPT !.lastStatus = newStatus]
                           ELSE c1]

\* a catch clause that throws every exception again
UpdateRethrowsAny(message) == TRUE

\* its catch clause: if (e.message === 'Update failed') throw e
UpdateRethrows(message) == message = "Update failed"

UpdateLine(c, line) ==
    IF IsBlank(line) THEN c
    ELSE LET r == UpdateTry(c, line)
         IN IF r.exc = NoErr THEN r.c
            ELSE IF UpdateRethrows(r.exc) THEN [r.c EXCEPT !.thrown = r.exc]
            ELSE Logged(r.c)

\* standalone page pullModel, the try block of the for loop
PullTry(c, line) ==
    IF ~Parses(line) THEN [c |-> c, exc |-> SyntaxError]
    ELSE LET update == JSONparse(line)
             c1 == [c EXCEPT !.parsed = Append(c.parsed, update)]
         IN CASE update.status = "error" ->
                   [c |-> c1,
                    exc |-> IF update.error # "" THEN update.error ELSE "Pull failed"]
              [] update.status = "downloading" ->
                   [exc |-> NoErr,
                    c |-> [Show(c1, Text(update.status))
                             EXCEPT !.progress = <<update.completed, update.total>>]]
              [] StatusChanged(Text(update.status), c1.lastStatus) ->
                   [exc |-> NoErr,
                    c |-> [Show(c1, Text(update.status))
                             EXCEPT !.lastStatus = Text(update.status)]]
              [] OTHER -> [exc |-> NoErr, c |-> c1]

\* its catch clause: if (e.message === 'Pull failed') throw e
PullRethrows(message) == message = "Pull failed"

PullLine(c, line) ==
    IF IsBlank(line) THEN c
    ELSE LET r == PullTry(c, line)
         IN IF r.exc = NoErr THEN r.c
            ELSE IF PullRethrows(r.exc) THEN [r.c EXCEPT !.thrown = r.exc]
            ELSE Logged(r.c)

ProcessLine(who, c, line) ==
    CASE who = "app" -> AppPullLine(c, line)
      [] who = "update" -> UpdateLine(c, line)
      [] who = "pull" -> PullLine(c, line)

\* the for loop: the lines of one chunk in order, left when a line throws
RECURSIVE ProcessLines(_, _, _)
ProcessLines(who, c, lines) ==
    IF lines = <<>> \/ c.thrown # NoErr THEN c
    ELSE ProcessLines(who, ProcessLine(who, c, Head(lines)), Tail(lines))

\* new TextDecoder().decode(value).split('\n'), app.js also filters blanks
LinesOf(who, chunk) ==
    IF who = "app"
    THEN SelectSeq(Split(chunk), LAMBDA l : ~IsBlank(l))
    ELSE Split(chunk)

\* one iteration of the read loop on a chunk
ProcessChunk(who, c, chunk) == ProcessLines(who, c, LinesOf(who, chunk))

\* the catch block around the whole operation
Caught(who, c, message) ==
    CASE who = "app" ->
             [c EXCEPT !.thrown = message,
                       !.toast = Label("Pull failed: ", NoPct, message),
                       !.statusText = ErrorLabel(message)]
      [] OTHER ->
             [c EXCEPT !.thrown = message, !.statusText = ErrorLabel(message)]

\* what follows the read loop when reader.read() reports done
Completed(who, c) ==
    CASE who = "app" ->
             [c EXCEPT !.toast = Text("Successfully pulled")]
      [] who = "update" -> [c EXCEPT !.statusText = Text("Update complete")]
      [] who = "pull" -> [c EXCEPT !.statusText = Text("Pull complete"),
                                   !.progress = <<>>]

StartLabel(who) ==
    CASE who = "app" -> Text("Initializing...")
      [] who = "update" -> Text("Starting update...")
      [] who = "pull" -> Text("Starting pull...")

DefaultStartError(who) ==
    IF who = "update" THEN "Failed to start update" ELSE "Failed to start pull"

ServerMessages == {"", "Not Found"}

InitClient ==
    /\ consumer \in Consumers
    /\ payload = <<>>
    /\ pos = 0
    /\ chunks = <<>>
    /\ cphase = "idle"
    /\ cs = InitCs
    /\ ServerIdle
    /\ SideIdle
    /\ PageIdle
    /\ StreamsIdle

\* fetch() answered with response.ok: the read loop starts
FetchOk ==
    /\ cphase = "idle"
    /\ \E body \in Bodies : payload' = body
    /\ cphase' = "reading"
    /\ cs' = [cs EXCEPT !.statusText = StartLabel(consumer)]
    /\ UNCHANGED <<consumer, pos, chunks>>
    /\ UNCHANGED outsideClient

\* fetch() answered with an error status: throw new Error(error.message || ...)
FetchNotOk ==
    /\ cphase = "idle"
    /\ \E m \in ServerMessages :
         cs' = Caught(consumer, cs,
                      IF m # "" THEN m ELSE DefaultStartError(consumer))
    /\ cphase' = "failed"
    /\ UNCHANGED <<consumer, payload, pos, chunks>>
    /\ UNCHANGED outsideClient

\* reader.read() yields the next n bytes (the rest of the body when this is
\* the last chunk the bound allows)
ReadChunk ==
    /\ cphase = "reading"
    /\ pos < Len(payload)
    /\ \E n \in 1..(Len(payload) - pos) :
         LET chunk == SubSeq(payload, pos + 1, pos + n)
             c1 == ProcessChunk(consumer, cs, chunk)
         IN /\ Len(chunks) + 1 < MaxChunks \/ pos + n = Len(payload)
            /\ pos' = pos + n
            /\ chunks' = Append(chunks, chunk)
            /\ IF c1.thrown # NoErr
               THEN /\ cs' = Caught(consumer, c1, c1.thrown)
                    /\ cphase' = "failed"
               ELSE /\ cs' = c1
                    /\ cphase' = "reading"
    /\ UNCHANGED <<consumer, payload>>
    /\ UNCHANGED outsideClient

\* reader.read() yields done
ReadDone ==
    /\ cphase = "reading"
    /\ pos = Len(payload)
    /\ cs' = Completed(consumer, cs)
    /\ cphase' = "done"
    /\ UNCHANGED <<consumer, payload, pos, chunks>>
    /\ UNCHANGED outsideClient

NextClient == FetchOk \/ FetchNotOk \/ ReadChunk \/ ReadDone

SpecClient == InitClient /\ [][NextClient]_vars

(***************************************************************************)
(* The standalone page: the model list, its checkboxes and the             *)
(* Update Selected button.                                                 *)
(***************************************************************************)
InitPage ==
    /\ PageIdle
    /\ StreamsIdle
    /\ ClientIdle
    /\ ServerIdle
    /\ SideIdle

\* updateBulkActionButtons(), given the selection it finds
updateBulkActionButtons(d, selected) ==
    [d EXCEPT !.updateSelectedBtnDisabled = (selected = {})]

\* refreshModels() up to "await fetch('/api/models')"
RefreshModelsStart ==
    /\ dom.refreshing < MaxPending
    /\ selectedModels' = {}
    /\ dom' = [dom EXCEPT !.refreshing = dom.refreshing + 1]
    /\ UNCHANGED currentModels
    /\ UNCHANGED outsidePage

\* refreshModels() after the fetch: the list is drawn anew, every checkbox
\* unchecked; or the catch block replaces the list by the error text
RefreshModelsSettle ==
    /\ dom.refreshing > 0
    /\ \/ \E models \in SUBSET ModelNames :
            /\ currentModels' = models
            /\ dom' = [dom EXCEPT !.refreshing = dom.refreshing - 1,
                                  !.rendered = models, !.checked = {}]
       \/ /\ currentModels' = currentModels
          /\ dom' = [dom EXCEPT !.refreshing = dom.refreshing - 1,
                                !.rendered = {}, !.checked = {}]
    /\ UNCHANGED selectedModels
    /\ UNCHANGED outsidePage

\* the user clicks the checkbox of a model: toggleModel(modelName)
toggleModel ==
    /\ \E modelName \in dom.rendered :
         LET isChecked == modelName \notin dom.checked
             selected == IF isChecked THEN selectedModels \cup {modelName}
                         ELSE selectedModels \ {modelName}
         IN /\ selectedModels' = selected
            /\ dom' = updateBulkActionButtons(
                         [dom EXCEPT !.checked = IF isChecked
                                                 THEN dom.checked \cup {modelName}
                                                 ELSE dom.checked \ {modelName}],
                         selected)
    /\ UNCHANGED currentModels
    /\ UNCHANGED outsidePage

\* the user clicks the select-all checkbox: toggleAllModels(checkbox)
toggleAllModels ==
    /\ \E isChecked \in BOOLEAN :
         LET present == currentModels \cap dom.rendered
             selected == IF isChecked THEN selectedModels \cup present
                         ELSE selectedModels \ present
         IN /\ selectedModels' = selected
            /\ dom' = updateBulkActionButtons(
                         [dom EXCEPT !.checked = IF isChecked
                                                 THEN dom.checked \cup present
                                                 ELSE dom.checked \ present],
                         selected)
    /\ UNCHANGED currentModels
    /\ UNCHANGED outsidePage

\* updateSelectedModels() up to "await Promise.all(updatePromises)"; it
\* returns at once on an empty selection, and getElementById(...).closest
\* throws when a selected model has no row
updateSelectedModelsStart ==
    /\ ~dom.updateSelectedBtnDisabled
    /\ dom.updating < MaxPending
    /\ selectedModels # {}
    /\ selectedModels \subseteq dom.rendered
    /\ dom' = [dom EXCEPT !.updating = dom.updating + 1]
    /\ UNCHANGED <<selectedModels, currentModels>>
    /\ UNCHANGED outsidePage

\* updateSelectedModels() after the await: clear, updateBulkActionButtons(),
\* refreshModels()
updateSelectedModelsSettle ==
    /\ dom.updating > 0
    /\ dom.refreshing < MaxPending
    /\ selectedModels' = {}
    /\ dom' = [updateBulkActionButtons(dom, {})
                  EXCEPT !.updating = dom.updating - 1,
                         !.refreshing = dom.refreshing + 1]
    /\ UNCHANGED currentModels
    /\ UNCHANGED outsidePage

NextPage ==
    \/ RefreshModelsStart
    \/ RefreshModelsSettle
    \/ toggleModel
    \/ toggleAllModels
    \/ updateSelectedModelsStart
    \/ updateSelectedModelsSettle

SpecPage == InitPage /\ [][NextPage]_vars

\* C28 (checked under SpecPage): the Update Selected button is disabled
\* exactly when no model is selected.
C28_ButtonDisabledIffNoSelection ==
    dom.updateSelectedBtnDisabled <=> (selectedModels = {})

(***************************************************************************)
(* Streams read at the same time in the standalone page: updateModel calls *)
(* started together by updateSelectedModels or by clicks, and pullModel.   *)
(* Every call runs its read loop between awaits; the loops interleave      *)
(* chunk by chunk.  Each chunk is one line.                                *)
(***************************************************************************)
StreamIds == {1, 2}
StreamCodes == {"D", "W", "S"}
StreamLines == SeqsUpTo({JsonLine(c) : c \in StreamCodes}, MaxLines) \ {<<>>}

\* one variable for the whole page
LastStatusScopeShared(id) == 0

\* "let lastStatus = ''" is declared in the body of processUpdateStream and
\* of pullModel: every call has its own
LastStatusScope(id) == id

InitStreams ==
    /\ streams \in [StreamIds -> [who : {"update", "pull"}, lines : StreamLines,
                                  next : {1}, done : {FALSE}, cs : {InitCs}]]
    /\ lastStatusIn = [scope \in StreamIds \cup {0} |-> Text("")]
    /\ PageIdle
    /\ ClientIdle
    /\ ServerIdle
    /\ SideIdle

\* one iteration of the read loop of stream id
StreamRead ==
    /\ \E id \in StreamIds :
         LET st == streams[id]
             scope == LastStatusScope(id)
             before == [st.cs EXCEPT !.lastStatus = lastStatusIn[scope]]
             after == ProcessChunk(st.who, before, Append(st.lines[st.next], NL))
         IN /\ ~st.done
            /\ st.next <= Len(st.lines)
            /\ streams' = [streams EXCEPT ![id].cs = after,
                                          ![id].next = st.next + 1]
            /\ lastStatusIn' = [lastStatusIn EXCEPT ![scope] = after.lastStatus]
    /\ UNCHANGED outsideStreams

\* reader.read() of stream id reports done
StreamDone ==
    /\ \E id \in StreamIds :
         LET st == streams[id]
         IN /\ ~st.done
            /\ st.next > Len(st.lines)
            /\ streams' = [streams EXCEPT ![id].done = TRUE,
                                          ![id].cs = Completed(st.who, st.cs)]
    /\ UNCHANGED lastStatusIn
    /\ UNCHANGED outsideStreams

NextStreams == StreamRead \/ StreamDone

SpecStreams == InitStreams /\ [][NextStreams]_vars

\* what stream id renders when its lines are read with no other stream
RenderedAlone(id) ==
    LET st == streams[id]
        read == [i \in 1..(st.next - 1) |-> st.lines[i]]
    IN ProcessChunk(st.who, InitCs, BodyOf(read)).events

\* C22 (checked under SpecStreams): however the chunks of the streams
\* interleave, every stream has rendered exactly the records it renders when
\* it is read alone, and its last status is the one its own records left.
C22_StreamsDoNotInterfere ==
    \A id \in StreamIds :
        /\ streams[id].cs.events = RenderedAlone(id)
        /\ lastStatusIn[LastStatusScope(id)] = streams[id].cs.lastStatus

\* C22 witness: stream 1 has rendered writing manifest once for two such
\* records, with the success record of stream 2 read between them.
C22_Witness ==
    /\ streams[1].who = "update"
    /\ streams[1].lines = <<JsonLine("W"), JsonLine("W")>>
    /\ streams[1].next = 3
    /\ streams[1].cs.events = <<Text("Finalizing update...")>>
    /\ streams[2].who = "update"
    /\ streams[2].lines = <<JsonLine("S"), JsonLine("W")>>
    /\ streams[2].next = 2
    /\ streams[2].cs.events = <<Text("success")>>

(***************************************************************************)
(* Properties of the browser consumers (checked under SpecClient)           *)
(***************************************************************************)
Finished == cphase \in {"done", "failed"}

IsErrorRecord(r) == r.status = "error"
SawErrorRecord == \E i \in 1..Len(cs.parsed) : IsErrorRecord(cs.parsed[i])

ShowsSuccessOutcome ==
    \/ cs.statusText \in {Text("Pull complete"), Text("Update complete")}
    \/ cs.toast = Text("Successfully pulled")

IsPrefix(a, b) == Len(a) <= Len(b) /\ a = SubSeq(b, 1, Len(a))

\* every piece split('\n') produced from the chunks read so far, in order
PiecesRead == Concat([i \in 1..Len(chunks) |-> Split(chunks[i])])

\* the records of the pieces that parse, in order
ValidRead ==
    LET ok == SelectSeq(PiecesRead, Parses)
    IN [i \in 1..Len(ok) |-> JSONparse(ok[i])]

\* C2: for every partition of a well-formed newline-delimited body into
\* chunks, the consumer ends with the same sequence of parsed records as for
\* the body delivered in one chunk.
C2_SameRecordsForEveryPartition ==
    (Finished /\ WellFormed(payload))
        => cs.parsed = ProcessChunk(consumer, InitCs, payload).parsed

\* C3: a processed record with status "error" is the last record processed,
\* and the consumer has raised an error carrying the record's error field
\* (some message when the field is absent).
C3_ErrorRecordRaisesAndStops ==
    \A i \in 1..Len(cs.parsed) :
        IsErrorRecord(cs.parsed[i])
            => /\ i = Len(cs.parsed)
               /\ cphase = "failed"
               /\ cs.thrown # NoErr
               /\ cs.parsed[i].error # "" => cs.thrown = cs.parsed[i].error
               /\ cs.statusText = ErrorLabel(cs.thrown)

\* C4: a pull or update whose stream delivered a record with status "error"
\* never shows a success outcome, and once it is over the error is on screen.
C4_ErrorNeverEndsAsSuccess ==
    SawErrorRecord
        => /\ ~ShowsSuccessOutcome
           /\ Finished => cs.statusText = ErrorLabel(cs.thrown)

\* C5: a line that fails JSON parsing is skipped and never aborts the
\* stream: the records processed are exactly the records of the lines that
\* parse, in order, in this chunk and the later ones; the read loop is left
\* early only by an explicit error record.  The body downloading 1/2,
\* NOT JSON, success read in one chunk yields exactly two display events.
ExampleSkipEvents(who) ==
    CASE who = "app" -> <<Label("Downloading: ", 500, ""),
                          Text("Pull completed successfully")>>
      [] who = "update" -> <<Label("Downloading: ", 500, ""), Text("success")>>
      [] who = "pull" -> <<Text("downloading"), Text("success")>>

C5_BadLineIsSkipped ==
    chunks # <<>> =>
        /\ IF cphase = "failed"
           THEN /\ IsPrefix(cs.parsed, ValidRead)
                /\ cs.parsed # <<>>
                /\ IsErrorRecord(cs.parsed[Len(cs.parsed)])
           ELSE cs.parsed = ValidRead
        /\ (cphase = "done" /\ chunks = <<ExampleSkip>>)
               => cs.events = ExampleSkipEvents(consumer)

\* C5 witness: the example body read line by line to its end, the bad line
\* logged and both of its neighbours processed.
C5_Witness ==
    /\ cphase = "done"
    /\ payload = ExampleSkip
    /\ Len(chunks) = 3
    /\ cs.logged = 1
    /\ cs.parsed = <<RecordOf("D"), RecordOf("S")>>

IsDownloading(r) == r.status = "downloading"
IsDownloadLabel(l) == l.text \in {"Downloading: ", "downloading"}
HasLastStatus(who) == who \in {"update", "pull"}
ShowsPercent(who) == who \in {"app", "update"}

C16_DownloadingAlwaysRenders ==
    Len(SelectSeq(cs.parsed, IsDownloading))
        = Len(SelectSeq(cs.events, IsDownloadLabel))

\* C17: no UI update shows NaN or Infinity as a percentage, and a download
\* record with total = 0 is shown as 0 percent by the consumers that show a
\* percentage.
C17_ZeroTotalShowsZero ==
    /\ \A i \in 1..Len(cs.events) : cs.events[i].pct \notin {NaNPct, InfPct}
    /\ ( /\ ShowsPercent(consumer)
         /\ cs.parsed # <<>>
         /\ IsDownloading(cs.parsed[Len(cs.parsed)])
         /\ cs.parsed[Len(cs.parsed)].total = 0 )
           => /\ cs.events # <<>>
              /\ cs.events[Len(cs.events)] = Label("Downloading: ", 0, "")

\* C18: every percentage shown for a download record with total > 0, in the
\* label and as the width of the progress bar, lies within 0..100 (0..1000
\* tenths), also when completed > total.
PercentInRange(pct) ==
    pct \in {NoPct, NaNPct, InfPct} \/ (0 <= pct /\ pct <= 1000)

C18_PercentWithinBounds ==
    /\ \A i \in 1..Len(cs.events) : PercentInRange(cs.events[i].pct)
    /\ consumer = "app"
           => \A i \in 1..Len(cs.progress) : PercentInRange(cs.progress[i])

\* the lines of s that are followed by a newline
TerminatedLines(s) == SubSeq(Split(s), 1, Len(Split(s)) - 1)

\* C19: only newline-terminated lines produce records: the consumer has
\* parsed no more records than the bytes delivered so far hold terminated
\* lines that parse.
C19_UnterminatedNeverParsed ==
    Len(cs.parsed)
        <= Len(SelectSeq(TerminatedLines(SubSeq(payload, 1, pos)), Parses))

SawSuccessRecord ==
    \E i \in 1..Len(cs.parsed) : cs.parsed[i].status = "success"

\* C25: a success outcome (Pull complete, Update complete, the Successfully
\* pulled toast) is shown only if a record with status "success" was
\* processed.
C25_SuccessNeedsSuccessRecord == ShowsSuccessOutcome => SawSuccessRecord

\* C26: in the standalone pullModel, while the stream is read, the status
\* text is the status of the record processed last (records with status
\* "error" aside).
C26_StatusTextIsLastRecord ==
    ( /\ consumer = "pull"
      /\ cphase = "reading"
      /\ cs.parsed # <<>>
      /\ \A i \in 1..Len(cs.parsed) : ~IsErrorRecord(cs.parsed[i]) )
        => cs.statusText = Text(cs.parsed[Len(cs.parsed)].status)

(***************************************************************************)
(* Properties of the server                                                *)
(***************************************************************************)
Answered == at.step = "sent"
Authorized == ~apiKeyAuthRefuses(env, req)

IsStreamingRequest ==
    /\ req.method = "POST"
    /\ req.path \in {"/api/pull", "/api/update-model"}
    /\ ValidName(req.name)

IsBulkDelete ==
    /\ req.method = "DELETE"
    /\ req.path = "/api/models"
    /\ req.isArray
    /\ Len(req.models) > 0

Settled == Len(sub) > 0 /\ \A i \in 1..Len(sub) : sub[i].state # "pending"
Rejected == SelectSeq(sub, LAMBDA s : s.state = "rejected")
Fulfilled == SelectSeq(sub, LAMBDA s : s.state = "fulfilled")
RejectedItems ==
    [i \in 1..Len(Rejected) |->
        [model |-> Rejected[i].model, error |-> Rejected[i].message]]

\* C1 (checked under Spec): an authorized POST /api/pull or POST
\* /api/update-model with a non-empty model name is held by a streaming relay
\* handler and answered by it; it is never answered with 404.
C1_StreamingRequestReachesRelay ==
    (IsStreamingRequest /\ Authorized /\ Answered)
        => /\ res.by \in RelayHandlers
           /\ res.statusCode # 404

\* C6 (checked under SpecHandlers): a bulk delete in which at least one
\* sub-delete succeeded and at least one failed is answered 207 with
\* success:true, deleted = number of succeeded models and failed = the
\* {model, error} items of the failed ones.
C6_PartialFailureAnswer ==
    (Answered /\ IsBulkDelete /\ Settled
              /\ Len(Fulfilled) > 0 /\ Len(Rejected) > 0)
        => /\ res.statusCode = 207
           /\ res.kind = "json"
           /\ {"success", "deleted", "failed"} \subseteq res.json.keys
           /\ res.json.success
           /\ res.json.n = Len(Fulfilled)
           /\ res.json.failed = RejectedItems

\* C7 (checked under SpecHandlers): a bulk delete is answered 200 when every
\* sub-delete succeeded, 207 only when some but not all failed, and neither
\* 200 nor 207 when every sub-delete failed.
C7_BulkDeleteStatus ==
    (Answered /\ IsBulkDelete /\ Settled)
        => /\ Len(Rejected) = 0 => res.statusCode = 200
           /\ res.statusCode = 207 => (Len(Rejected) > 0 /\ Len(Fulfilled) > 0)
           /\ Len(Fulfilled) = 0 => res.statusCode \notin {200, 207}

\* C8 (checked under Spec): once a bulk delete of the list M is answered, one
\* sub-request was issued for every model of M, whatever became of the others,
\* and the failed list computed is exactly the rejected models with their own
\* messages, with deleted = |M| - |failed|.
ComputedFailed == IF res.json.failed # <<>> THEN res.json.failed ELSE err.failed

C8_EverySubRequestIssued ==
    (Answered /\ IsBulkDelete /\ Authorized)
        => /\ Len(sub) = Len(req.models)
           /\ \A i \in 1..Len(sub) : sub[i].model = req.models[i]
           /\ Settled
           /\ ComputedFailed = RejectedItems

\* C9 (checked under SpecHandlers): when the upstream request of a pull or
\* update is refused before any byte is forwarded, the caller gets one JSON
\* error object with an error status, and the response does not carry the
\* chunked framing.
C9_RefusedUpstreamIsOneJsonError ==
    (Answered /\ up.state = "refused")
        => /\ res.kind = "json"
           /\ res.statusCode >= 400
           /\ res.written = <<>>
           /\ res.transferEncoding # "chunked"

\* C10 (checked under SpecHandlers): once the upstream stream has errored
\* and its error listener has run, a response that had sent nothing is a 500
\* JSON error, and a response that had sent bytes keeps its status and is
\* terminated.
C10_UpstreamErrorEndsResponse ==
    up.state = "errored"
        => IF res.written = <<>>
           THEN res.statusCode = 500 /\ res.kind = "json" /\ res.ended
           ELSE res.statusCode = 200 /\ (res.ended \/ res.destroyed)

DownstreamGone == at.step = "orphaned" /\ res.destroyed
UpstreamRunning == up.state \in {"connecting", "open"}

\* C11 (checked under SpecHandlersFair): when the downstream client has
\* disconnected during a relay, the upstream request eventually stops running.
C11_DisconnectStopsUpstream == DownstreamGone ~> ~UpstreamRunning

SyntheticAppended == \E i \in 1..Len(res.written) : res.written[i] = "success"

\* C12 (checked under SpecHandlers): after a clean upstream end the response
\* has been ended exactly once, and the synthetic success record, if it was
\* appended, is the only content: upstream content had written no headers and
\* nothing was forwarded before it.
C12_CleanEndEndsOnce ==
    up.state = "ended"
        => /\ res.ended
           /\ res.ends = 1
           /\ SyntheticAppended
                  => (up.data = <<>> /\ res.written = <<"success">>)

\* C12 witness: a relay that forwarded two chunks and ended cleanly.
C12_Witness ==
    /\ up.state = "ended"
    /\ at.step = "sent"
    /\ at.h \in RelayHandlers
    /\ Len(up.data) = 2
    /\ res.ends = 1
    /\ ~SyntheticAppended

\* C13 (checked under SpecHandlers): a response that streams upstream content
\* for POST /api/pull or POST /api/update-model carries Transfer-Encoding:
\* chunked, Connection: keep-alive, Cache-Control: no-cache and Content-Type
\* application/octet-stream.
C13_StreamedResponseFraming ==
    (at.h \in RelayHandlers /\ res.kind = "stream")
        => /\ res.transferEncoding = "chunked"
           /\ res.connection = "keep-alive"
           /\ res.cacheControl = "no-cache"
           /\ res.contentType = "application/octet-stream"

\* C14 (checked under SpecHandlers): while a relay handler holds the request,
\* the content written to the response is a prefix of the content received
\* from upstream, and after a clean end with at least one upstream chunk the
\* two are equal.
C14_ForwardedVerbatim ==
    (at.h \in RelayHandlers /\ res.kind # "json")
        => /\ IsPrefix(res.written, up.data)
           /\ (up.state = "ended" /\ up.data # <<>>) => res.written = up.data

\* C14 witness: two different chunks forwarded in order, then a clean end.
C14_Witness ==
    /\ at.h \in RelayHandlers
    /\ up.state = "ended"
    /\ up.data = <<"y", "x">>
    /\ res.written = <<"y", "x">>

IsUnnamedStreamingRequest ==
    /\ req.method = "POST"
    /\ req.path \in {"/api/pull", "/api/update-model"}
    /\ ~ValidName(req.name)

\* C20 (checked under Spec): an authorized POST /api/pull or POST
\* /api/update-model whose model name is missing, no string or blank is
\* answered 400, and no upstream request is made for it.
C20_InvalidNameIsRejected ==
    (IsUnnamedStreamingRequest /\ Authorized /\ Answered)
        => /\ res.statusCode = 400
           /\ up.state = "none"

IsSetEndpoint == req.method = "POST" /\ req.path = "/api/set-endpoint"

C21_SetEndpointStep ==
    /\ ollamaEndpoint' # ollamaEndpoint
           => /\ IsSetEndpoint
              /\ at = [h |-> "setEndpoint", step |-> "await"]
              /\ ollamaEndpoint' = req.endpoint
              /\ at' = Sent("setEndpoint")
              /\ res'.statusCode = 200
    /\ (at.h = "setEndpoint" /\ at'.h # "setEndpoint" /\ served' = served)
           => /\ at' = [h |-> "errorHandler", step |-> "run"]
              /\ err'.status = 400
              /\ ollamaEndpoint' = ollamaEndpoint
    /\ (at = [h |-> "errorHandler", step |-> "run"] /\ at'.step = "sent")
           => /\ res'.statusCode = err.status
              /\ ollamaEndpoint' = ollamaEndpoint

C21_SetEndpointAnswer ==
    (IsSetEndpoint /\ Authorized /\ Answered)
        => /\ res.statusCode \in {200, 400}
           /\ res.statusCode = 200 => ollamaEndpoint = req.endpoint

\* C21 (checked under Spec): the active endpoint changes only in the step in
\* which the probe of a POST /api/set-endpoint succeeds, to the requested URL
\* and with the answer 200; a handler that fails (validation or probe) hands a
\* 400 error to the centralized error handler, which answers 400, and the
\* active endpoint is as before.
C21_EndpointSetOnlyAfterProbe ==
    []C21_SetEndpointAnswer /\ [][C21_SetEndpointStep]_vars

\* C21 witness: after one successful set-endpoint, a second one to another
\* URL was answered 400 and the active endpoint is still the first one.
C21_Witness ==
    /\ IsSetEndpoint
    /\ Answered
    /\ res.statusCode = 400
    /\ res.by = "errorHandler"
    /\ req.endpoint = BackupEndpoint
    /\ ollamaEndpoint = OtherEndpoint

\* C24 (checked under Spec): every answer of GET /api/endpoints marks exactly
\* one configured endpoint as active.
C24_ExactlyOneActive ==
    (Answered /\ res.by = "endpoints")
        => /\ res.json.failed = ActiveEndpoints
           /\ Len(res.json.failed) = 1

KeyMissingOrWrong == env.API_KEY # "" /\ req.key # env.API_KEY

C29_Refused == req # NoRequest /\ IsApiPath(req.path) /\ KeyMissingOrWrong

C29_RefusedState ==
    C29_Refused
        => /\ at.h = "errorHandler"
           /\ Answered => (res.statusCode = 401 /\ res.kind = "json")
           /\ up.state = "none"
           /\ sub = <<>>

C29_RefusedStep ==
    (C29_Refused /\ served' = served) => ollamaEndpoint' = ollamaEndpoint

C27_WrittenState ==
    /\ res.ends <= 1
    /\ (res.kind = "json" /\ req.path \in {"/api/pull", "/api/update-model"})
           => res.written = <<>>
    /\ SyntheticAppended => res.written = <<"success">>

C27_WrittenStep ==
    (res.headersSent /\ served' = served
                     /\ req.path \in {"/api/pull", "/api/update-model"})
        => /\ res'.headersSent
           /\ res'.statusCode = res.statusCode
           /\ res'.contentType = res.contentType
           /\ res'.kind = res.kind
           /\ res'.json = res.json
           /\ res'.ends >= res.ends
           /\ IsPrefix(res.written, res'.written)

\* C27 (checked under SpecHandlers): while a relay handler serves a request,
\* once the headers of the response are sent its status, its headers and its
\* JSON body stay as they are and no synthetic record is appended; the
\* response is ended at most once.
C27_HeadersAndEndOnce == []C27_WrittenState /\ [][C27_WrittenStep]_vars

\* C27 witness: upstream failed after a chunk was forwarded; nothing was
\* written after it.
C27_Witness ==
    /\ at.h \in RelayHandlers
    /\ up.state = "errored"
    /\ res.kind = "stream"
    /\ res.written = <<"x">>
    /\ res.statusCode = 200

\* C23 (checked under SpecListing): all upstream requests made for one GET
\* /api/models request, the tag list and every detail call, were sent to the
\* same endpoint.
C23_OneEndpointPerListing ==
    \A i, j \in 1..Len(listing.endpoints) :
        listing.endpoints[i] = listing.endpoints[j]

C30_ConnectionLeft == at.step \in {"run", "await", "relay", "stalled"}

C30_ExitStep ==
    (proc.state # "exited" /\ proc'.state = "exited") =>
        /\ proc.state = "closing"
        /\ proc'.code \in {0, 1}
        /\ proc'.code = 0 =>
              /\ proc'.by = "close"
              /\ ~C30_ConnectionLeft
              /\ ~Head(proc.callbacks)
        /\ proc'.by = "timer" => proc'.code = 1
        /\ (proc'.by = "close" /\ Head(proc.callbacks)) => proc'.code = 1

C30_ExitedStays ==
    /\ proc.state = "exited" => (proc.code \in {0, 1} /\ at = Exited)
    /\ proc.state # "exited" => proc.code = -1

\* C30 (checked under SpecShutdown): once a termination signal has been
\* delivered the process eventually exits, whatever requests and relays are
\* open; it exits with code 0 only from the close callback, called without an
\* error when no connection is left, and with code 1 when the callback gets
\* an error or the timer fires.
C30_SignalLeadsToExit ==
    /\ []C30_ExitedStays
    /\ [][C30_ExitStep]_vars
    /\ (proc.state = "closing") ~> (proc.state = "exited")

\* the timer ended the process while a relay was open
C30_Witness ==
    /\ proc.state = "exited"
    /\ proc.by = "timer"
    /\ proc.code = 1
    /\ res.headersSent
    /\ ~res.ended
    /\ ~res.destroyed
    /\ up.state = "open"

====
